---- MODULE Spec2Model ----
(***************************************************************************)
(* Model of the retrieval pipeline of the HLD app:                         *)
(*   services/langchain.ts  - splitToDocuments, getVectorStore,            *)
(*                            addDocumentsToStore, similaritySearch        *)
(*   the four route handlers - /api/ingest/upload, /api/ingest/text,       *)
(*                            /api/ingest/youtube, /api/query              *)
(*                                                                         *)
(* The handlers run on one JavaScript event loop: a handler runs without   *)
(* interruption between two awaits, so every action below is one such run. *)
(* A request is handed to its handler with its body already read; a throw  *)
(* reaches the route's catch, and a returned value the route's response,   *)
(* in a later run than the one that produced it.                           *)
(* Calls into the libraries (RecursiveCharacterTextSplitter, HNSWLib,      *)
(* OpenAIEmbeddings) are modelled at the call site, by what the call does  *)
(* to the state of this program; the network calls (embedding, transcript) *)
(* succeed or fail nondeterministically.                                   *)
(***************************************************************************)
EXTENDS Integers, Sequences, FiniteSets

\* Number of concurrent requests the process serves.
NCalls == 2
\* Largest k a query request passes explicitly.
MaxK == 1
\* similaritySearch(query, k = 4) and the route's k ?? 4.
DefaultK == 4

Calls == 1..NCalls

\* A JSON field that is absent, and one that is present but not a string.
Undefined == "<undefined>"
NonString == "<number>"
\* The texts a request carries: empty, whitespace only, and a text longer
\* than one chunk.
Texts == {"", "   ", "long"}

\* String.prototype.trim on the texts above.
Trim(t) == IF t = "   " THEN "" ELSE t

\* JavaScript's !x for a request field.
Falsy(x) == x = Undefined \/ x = ""

Min(a, b) == IF a < b THEN a ELSE b

\* splitter.createDocuments([text]) with chunkSize 1000, chunkOverlap 200:
\* no chunk for text that is empty after trimming, several chunks for the
\* text longer than one chunk.
SplitToDocuments(t) ==
    IF Trim(t) = "" THEN << >>
    ELSE << "long#1", "long#2" >>

VARIABLES
    apiKey,              \* process.env.OPENAI_API_KEY is set
    vectorStorePromise,  \* "null", or the state of the promise it holds
    created,             \* invocations of HNSWLib.fromDocuments
    attempts,            \* evaluations of the creation statement (line 21)
    index,               \* the store's records, in insertion order
    req                  \* per request: position, inputs, locals, response

vars == << apiKey, vectorStorePromise, created, attempts, index, req >>

\* k is the k passed to similaritySearch (-1: not called); result is what the
\* service call or the handler's own code came to ("ok" or the error thrown)
\* before the route has answered.
Idle == [pc |-> "idle", route |-> "none", text |-> Undefined, k |-> -1,
         docs |-> << >>, store |-> 0, splitCalled |-> FALSE,
         embedCalled |-> FALSE, searched |-> FALSE, seen |-> << >>,
         nresults |-> 0, result |-> "none", status |-> 0, added |-> 0,
         error |-> "none"]

Init ==
    /\ apiKey \in BOOLEAN
    /\ vectorStorePromise = "null"
    /\ created = 0
    /\ attempts = 0
    /\ index = << >>
    /\ req = [c \in Calls |-> Idle]

\* return NextResponse.json(..., { status }) in the run that decided it.
Respond(r, st, e) == [r EXCEPT !.pc = "done", !.status = st, !.error = e]

\* A throw, or a service call that returned: the route's catch or its next
\* statement runs after further promise turns.
Settle(r, res) == [r EXCEPT !.pc = "returning", !.result = res]

\* Variant: a rejected promise is discarded and the store created again.
GetVectorStoreRetry(p, key) ==
    IF p = "null" \/ p = "rejected"
    THEN IF key
         THEN [threw |-> FALSE, promise |-> "pending", isNew |-> TRUE, attempted |-> TRUE]
         ELSE [threw |-> TRUE, promise |-> p, isNew |-> FALSE, attempted |-> TRUE]
    ELSE [threw |-> FALSE, promise |-> p, isNew |-> FALSE, attempted |-> FALSE]

\* Variant: the test is on a settled store, not on the variable being set.
GetVectorStoreUnsettled(p, key) ==
    IF p = "null" \/ p = "pending"
    THEN IF key
         THEN [threw |-> FALSE, promise |-> "pending", isNew |-> TRUE, attempted |-> TRUE]
         ELSE [threw |-> TRUE, promise |-> p, isNew |-> FALSE, attempted |-> TRUE]
    ELSE [threw |-> FALSE, promise |-> p, isNew |-> FALSE, attempted |-> FALSE]

\* getVectorStore(): the creation statement runs only while the variable is
\* null. new OpenAIEmbeddings() is evaluated first and throws without an API
\* key, before fromDocuments is called and before the assignment.
GetVectorStore(p, key) ==
    IF p = "null"
    THEN IF key
         THEN [threw |-> FALSE, promise |-> "pending", isNew |-> TRUE, attempted |-> TRUE]
         ELSE [threw |-> TRUE, promise |-> p, isNew |-> FALSE, attempted |-> TRUE]
    ELSE [threw |-> FALSE, promise |-> p, isNew |-> FALSE, attempted |-> FALSE]

\* The first line of addDocumentsToStore and of similaritySearch: call
\* getVectorStore() and await what it returns. A synchronous throw rejects the
\* promise of the async function, which the route's catch sees later.
CallGetVectorStore(c, r) ==
    LET g == GetVectorStore(vectorStorePromise, apiKey) IN
    /\ vectorStorePromise' = g.promise
    /\ created' = IF g.isNew THEN created + 1 ELSE created
    /\ attempts' = IF g.attempted THEN attempts + 1 ELSE attempts
    /\ req' = [req EXCEPT ![c] =
                 IF g.threw THEN Settle(r, "ApiKeyMissing")
                 ELSE [r EXCEPT !.pc = "awaitStore", !.store = created']]
    /\ UNCHANGED << apiKey, index >>

\* A 400 returned by a guard.
Reject(c, r, st, e) ==
    /\ req' = [req EXCEPT ![c] = Respond(r, st, e)]
    /\ UNCHANGED << apiKey, vectorStorePromise, created, attempts, index >>

\* A throw inside the handler's try block, before the services are called.
Throw(c, r, e) ==
    /\ req' = [req EXCEPT ![c] = Settle(r, e)]
    /\ UNCHANGED << apiKey, vectorStorePromise, created, attempts, index >>

\* Requests are numbered in order of arrival.
Arrives(c) ==
    /\ req[c].pc = "idle"
    /\ \A b \in DOMAIN req : b < c => req[b].pc # "idle"

\* const docs = await splitToDocuments(text): the splitter runs and the
\* handler yields.
Split(c, r, t) ==
    /\ req' = [req EXCEPT ![c] = [r EXCEPT !.pc = "split", !.text = t,
                                            !.docs = SplitToDocuments(t),
                                            !.splitCalled = TRUE]]
    /\ UNCHANGED << apiKey, vectorStorePromise, created, attempts, index >>

\* POST /api/ingest/upload: the body is no form, or holds no file, or the
\* file cannot be read, or its text is split.
UploadPOST(c) ==
    /\ Arrives(c)
    /\ LET r == [req[c] EXCEPT !.route = "upload"] IN
       \/ Throw(c, r, "BodyNotFormData")
       \/ Reject(c, r, 400, "No file provided")
       \/ Throw(c, r, "FileReadFailed")
       \/ \E t \in Texts : Split(c, r, t)

\* POST /api/ingest/text: the body is not JSON, or not an object, or the
\* guard of line 31 rejects its text, or the text is split.
TextPOST(c) ==
    /\ Arrives(c)
    /\ LET r == [req[c] EXCEPT !.route = "text"] IN
       \/ Throw(c, r, "BodyNotJson")
       \/ Throw(c, r, "BodyNotObject")
       \/ \E t \in Texts \cup {Undefined, NonString} :
            IF Falsy(t) \/ t = NonString \/ Trim(t) = ""
            THEN Reject(c, [r EXCEPT !.text = t], 400, "Missing text")
            ELSE Split(c, [r EXCEPT !.text = t], t)

\* POST /api/ingest/youtube up to the fetch of the transcript: the body is
\* not JSON or not an object, the url is missing, is no string, has no video
\* id, or the transcript is requested.
YoutubePOST(c) ==
    /\ Arrives(c)
    /\ LET r == [req[c] EXCEPT !.route = "youtube"] IN
       \/ Throw(c, r, "BodyNotJson")
       \/ Throw(c, r, "BodyNotObject")
       \/ Reject(c, r, 400, "Missing url")
       \/ Throw(c, r, "url.match is not a function")
       \/ Throw(c, r, "Invalid YouTube URL")
       \/ /\ req' = [req EXCEPT ![c] = [r EXCEPT !.pc = "fetching"]]
          /\ UNCHANGED << apiKey, vectorStorePromise, created, attempts, index >>

\* fetchTranscriptFromYouTube after its fetch: the request failed, the answer
\* is not ok, is no JSON array, or is joined into the transcript, which the
\* route splits.
TranscriptSettles(c) ==
    /\ req[c].pc = "fetching"
    /\ \/ Throw(c, req[c], "FetchFailed")
       \/ Throw(c, req[c], "Transcript not available")
       \/ Throw(c, req[c], "Unexpected transcript format")
       \/ \E t \in Texts : Split(c, req[c], t)

\* await addDocumentsToStore(docs) in the three ingest routes.
AddDocumentsToStore(c) ==
    /\ req[c].pc = "split"
    /\ CallGetVectorStore(c, req[c])

\* POST /api/query: the body is not JSON or not an object, the guard rejects
\* a missing or empty query, or similaritySearch(query, k ?? 4) is called; k
\* is absent (-1 here) or a number from 0 up.
QueryPOST(c) ==
    /\ Arrives(c)
    /\ LET r == [req[c] EXCEPT !.route = "query"] IN
       \/ Throw(c, r, "BodyNotJson")
       \/ Throw(c, r, "BodyNotObject")
       \/ \E q \in Texts \cup {Undefined, NonString} :
            IF Falsy(q)
            THEN Reject(c, [r EXCEPT !.text = q], 400, "Missing query")
            ELSE \E k \in (-1)..MaxK :
                   CallGetVectorStore(c, [r EXCEPT !.text = q,
                       !.k = IF k = -1 THEN DefaultK ELSE k])

\* The promise of HNSWLib.fromDocuments([], embeddings) settles.
StoreSettles ==
    /\ vectorStorePromise = "pending"
    /\ \E outcome \in {"fulfilled", "rejected"} : vectorStorePromise' = outcome
    /\ UNCHANGED << apiKey, created, attempts, index, req >>

\* The await of getVectorStore() resumes. On a store: addDocuments and
\* similaritySearch start by calling the embedder, except that no documents
\* need no embedding and add nothing.
StoreAwaited(c) ==
    /\ req[c].pc = "awaitStore"
    /\ vectorStorePromise \in {"fulfilled", "rejected"}
    /\ LET r == req[c] IN
       req' = [req EXCEPT ![c] =
                 IF vectorStorePromise = "rejected"
                 THEN Settle(r, "StoreCreationFailed")
                 ELSE IF r.route # "query" /\ r.docs = << >>
                 THEN Settle(r, "ok")
                 ELSE [r EXCEPT !.pc = "embedding", !.embedCalled = TRUE]]
    /\ UNCHANGED << apiKey, vectorStorePromise, created, attempts, index >>

RECURSIVE Records(_, _, _, _)
\* The records addVectors appends for documents i..Len(docs) of call c: the
\* label of a record is the number of records before it.
Records(c, docs, i, n) ==
    IF i > Len(docs) THEN << >>
    ELSE << [id |-> n, call |-> c, content |-> docs[i]] >>
         \o Records(c, docs, i + 1, n + 1)

Contents(idx) == {idx[i].content : i \in 1..Len(idx)}

RECURSIVE Fresh(_, _)
Fresh(docs, have) ==
    IF docs = << >> THEN << >>
    ELSE IF Head(docs) \in have THEN Fresh(Tail(docs), have)
    ELSE << Head(docs) >> \o Fresh(Tail(docs), have \cup {Head(docs)})

\* Variant: content already stored is skipped.
AddVectorsDedup(idx, c, docs) ==
    idx \o Records(c, Fresh(docs, Contents(idx)), 1, Len(idx))

\* Variant: one run appends one record only.
AddVectorsFirstOnly(idx, c, docs) ==
    idx \o Records(c, << Head(docs) >>, 1, Len(idx))

\* Variant: new records go in front of the old ones.
AddVectorsFront(idx, c, docs) ==
    Records(c, docs, 1, Len(idx)) \o idx

\* store.addDocuments, second half: every document becomes a record, appended
\* in one run.
AddVectors(idx, c, docs) ==
    idx \o Records(c, docs, 1, Len(idx))

\* Variant: each chunk is embedded and added before the next one is embedded.
AddDocumentsPerChunk(idx, c, docs, embedded) ==
    IF embedded THEN AddVectors(idx, c, docs)
    ELSE AddVectors(idx, c, << Head(docs) >>)

\* store.addDocuments(docs): the embeddings of all documents are awaited
\* first; a failure there throws before anything is added.
AddDocuments(idx, c, docs, embedded) ==
    IF embedded THEN AddVectors(idx, c, docs) ELSE idx

\* store.addDocuments(docs) settles: the embedder has answered and, on
\* success, the batch is appended; the route resumes later.
AddDocumentsSettles(c) ==
    /\ req[c].pc = "embedding"
    /\ req[c].route # "query"
    /\ \E embedded \in BOOLEAN :
         /\ index' = AddDocuments(index, c, req[c].docs, embedded)
         /\ req' = [req EXCEPT ![c] =
                      Settle(req[c], IF embedded THEN "ok" ELSE "EmbeddingFailure")]
    /\ UNCHANGED << apiKey, vectorStorePromise, created, attempts >>

\* store.similaritySearch(query, k) once the query is embedded: a store that
\* never received a vector has no index and throws; otherwise k is lowered to
\* the number of records and that many documents come back. k = 0 is outside
\* what the index accepts: it is refused or answered with nothing.
Search(idx, k) ==
    IF Len(idx) = 0 THEN {[ok |-> FALSE, n |-> 0]}
    ELSE IF k = 0 THEN {[ok |-> FALSE, n |-> 0], [ok |-> TRUE, n |-> 0]}
    ELSE {[ok |-> TRUE, n |-> Min(k, Len(idx))]}

\* store.similaritySearch(query, k) settles: the embedder has answered and,
\* on success, the index is read; the route resumes later.
SimilaritySearchSettles(c) ==
    /\ req[c].pc = "embedding"
    /\ req[c].route = "query"
    /\ \/ req' = [req EXCEPT ![c] = Settle(req[c], "EmbeddingFailure")]
       \/ \E s \in Search(index, req[c].k) :
            req' = [req EXCEPT ![c] =
                      [Settle(req[c], IF s.ok THEN "ok" ELSE "SearchFailed")
                          EXCEPT !.searched = TRUE, !.seen = index,
                                 !.nresults = s.n]]
    /\ UNCHANGED << apiKey, vectorStorePromise, created, attempts, index >>

\* The route resumes: NextResponse.json({ ok: true, added: docs.length }) or
\* NextResponse.json({ results }) after the service call, or the catch block
\* with status 500.
RouteResponds(c) ==
    /\ req[c].pc = "returning"
    /\ LET r == req[c] IN
       req' = [req EXCEPT ![c] =
                 IF r.result = "ok"
                 THEN [Respond(r, 200, "none") EXCEPT
                          !.added = IF r.route = "query" THEN 0 ELSE Len(r.docs)]
                 ELSE Respond(r, 500, r.result)]
    /\ UNCHANGED << apiKey, vectorStorePromise, created, attempts, index >>

Next ==
    \/ \E c \in Calls : UploadPOST(c)
    \/ \E c \in Calls : TextPOST(c)
    \/ \E c \in Calls : YoutubePOST(c)
    \/ \E c \in Calls : TranscriptSettles(c)
    \/ \E c \in Calls : AddDocumentsToStore(c)
    \/ \E c \in Calls : QueryPOST(c)
    \/ StoreSettles
    \/ \E c \in Calls : StoreAwaited(c)
    \/ \E c \in Calls : AddDocumentsSettles(c)
    \/ \E c \in Calls : SimilaritySearchSettles(c)
    \/ \E c \in Calls : RouteResponds(c)

Spec == Init /\ [][Next]_vars

(***************************************************************************)
(* The same handlers, with the same inputs and outcomes, serving one       *)
(* request more: room for an ingest beside two queries.                    *)
(***************************************************************************)
CallsC7 == 1..(NCalls + 1)

InitC7 ==
    /\ apiKey \in BOOLEAN
    /\ vectorStorePromise = "null"
    /\ created = 0
    /\ attempts = 0
    /\ index = << >>
    /\ req = [c \in CallsC7 |-> Idle]

NextC7 ==
    \/ \E c \in CallsC7 : UploadPOST(c)
    \/ \E c \in CallsC7 : TextPOST(c)
    \/ \E c \in CallsC7 : YoutubePOST(c)
    \/ \E c \in CallsC7 : TranscriptSettles(c)
    \/ \E c \in CallsC7 : AddDocumentsToStore(c)
    \/ \E c \in CallsC7 : QueryPOST(c)
    \/ StoreSettles
    \/ \E c \in CallsC7 : StoreAwaited(c)
    \/ \E c \in CallsC7 : AddDocumentsSettles(c)
    \/ \E c \in CallsC7 : SimilaritySearchSettles(c)
    \/ \E c \in CallsC7 : RouteResponds(c)

SpecC7 == InitC7 /\ [][NextC7]_vars

(***************************************************************************)
(* Properties                                                              *)
(***************************************************************************)

IngestRoutes == {"upload", "text", "youtube"}

\* The number of records of idx that call c added.
CountOf(idx, c) == Cardinality({i \in 1..Len(idx) : idx[i].call = c})

IsPrefix(s, t) == Len(s) <= Len(t) /\ \A i \in 1..Len(s) : s[i] = t[i]

\* Call c's batch is wholly in idx or wholly absent from it.
NoneOrAll(idx, c) == CountOf(idx, c) \in {0, Len(req[c].docs)}

\* Call c finishes in this step.
Finishes(c) == req[c].pc # "done" /\ req'[c].pc = "done"

\* C1: however the calls interleave, HNSWLib.fromDocuments is invoked at most
\* once, and every call that obtained a store from getVectorStore obtained
\* the promise of that one invocation.
C1_SingleStore ==
    /\ created <= 1
    /\ \A c \in Calls : req[c].store # 0 => req[c].store = 1

\* Two callers entered getVectorStore before the creation completed.
C1_Witness ==
    /\ vectorStorePromise = "pending"
    /\ created = 1
    /\ req[1].pc = "awaitStore" /\ req[2].pc = "awaitStore"
    /\ req[1].route \in IngestRoutes /\ req[2].route = "query"

\* C3 (as claimed): a search with k > 0 on an index of n records succeeds and
\* returns exactly min(k, n) results, an empty result for n = 0.
C3_SearchReturnsMinKN ==
    \A c \in Calls :
        (req[c].searched /\ req[c].k > 0) =>
            /\ req[c].result = "ok"
            /\ req[c].nresults = Min(req[c].k, Len(req[c].seen))

\* C4 (as claimed): every entry point answers 400 to text that is empty after
\* trimming, without calling the splitter or the embedder.
C4_BlankTextRejected ==
    \A c \in Calls :
        (req[c].pc = "done" /\ req[c].text \in Texts /\ Trim(req[c].text) = "")
            => /\ req[c].status = 400
               /\ ~req[c].splitCalled
               /\ ~req[c].embedCalled

\* C5: an ingest call whose embedding step failed answers with an error, and
\* no record of its batch is in the index or in what any search has read.
C5_FailedIngestAddsNothing ==
    \A c \in Calls :
        (req[c].route \in IngestRoutes /\ req[c].result = "EmbeddingFailure")
            => /\ req[c].pc = "done" => req[c].status = 500
               /\ CountOf(index, c) = 0
               /\ \A q \in Calls : CountOf(req[q].seen, c) = 0

\* An ingest of two chunks failed at the embedding step while the index holds
\* the records of another call.
C5_Witness ==
    \E c, b \in Calls :
        /\ req[c].pc = "done" /\ req[c].route \in IngestRoutes
        /\ req[c].error = "EmbeddingFailure" /\ Len(req[c].docs) = 2
        /\ b # c /\ CountOf(index, b) = 2 /\ Len(index) = 2

\* C6: the step in which the store call of an ingest succeeds grows the
\* index by exactly the number of chunks the splitter gives for its text, and
\* the response that follows reports that number as added, all of them
\* records of this call, whatever the index already holds.
C6_IngestAddsAllChunks ==
    [][\A c \in Calls :
          /\ (req[c].pc # "returning" /\ req'[c].pc = "returning"
                 /\ req'[c].route \in IngestRoutes /\ req'[c].result = "ok")
                => Len(index') = Len(index) + Len(SplitToDocuments(req'[c].text))
          /\ (Finishes(c) /\ req'[c].route \in IngestRoutes /\ req'[c].status = 200)
                => /\ req'[c].added = Len(SplitToDocuments(req'[c].text))
                   /\ CountOf(index', c) = req'[c].added]_vars

\* The same text was ingested twice and the index holds its chunks twice.
C6_Witness ==
    /\ req[1].pc = "done" /\ req[2].pc = "done"
    /\ req[1].status = 200 /\ req[2].status = 200
    /\ req[1].route \in IngestRoutes /\ req[2].route \in IngestRoutes
    /\ req[1].text = "long" /\ req[2].text = "long"
    /\ req[1].added = 2 /\ req[2].added = 2
    /\ Len(index) = 4

\* C7: between any two runs of the event loop every batch is wholly in the
\* index or wholly absent, so is every batch in what a search has read; an
\* ingest call that is waiting for the embedder has appended nothing; and a
\* search whose query is being embedded can always go on to read the index,
\* whatever the other searches and ingests are doing.
C7_BatchesAtomic ==
    \A c \in DOMAIN req :
        /\ NoneOrAll(index, c)
        /\ \A q \in DOMAIN req : NoneOrAll(req[q].seen, c)
        /\ (req[c].pc = "embedding" /\ req[c].route \in IngestRoutes)
               => CountOf(index, c) = 0
        /\ (req[c].pc = "embedding" /\ req[c].route = "query")
               => ENABLED SimilaritySearchSettles(c)

\* Two searches and an ingest are in progress at once: the ingest has
\* appended its two chunks and not yet answered, one search has read the
\* whole batch and not yet answered, the other search is waiting for the
\* embedder.
C7_Witness ==
    \E q1, q2, c \in DOMAIN req :
        /\ q1 # q2
        /\ req[c].route \in IngestRoutes /\ Len(req[c].docs) = 2
        /\ req[c].pc = "returning" /\ CountOf(index, c) = 2
        /\ req[q1].route = "query" /\ req[q1].pc = "returning"
        /\ req[q1].searched /\ req[q1].result = "ok"
        /\ CountOf(req[q1].seen, c) = 2
        /\ req[q2].route = "query" /\ req[q2].pc = "embedding"

\* C8: every step leaves the old record sequence a prefix of the new one,
\* the ids are 0, 1, 2, ... in insertion order, and a step of a query call
\* leaves the index as it was.
C8_AppendOnly ==
    [][/\ IsPrefix(index, index')
       /\ \A i \in 1..Len(index') : index'[i].id = i - 1
       /\ \A c \in Calls :
            (req'[c].route = "query" /\ req'[c] # req[c]) => index' = index]_vars

\* Two ingest calls have appended their batches one after the other.
C8_Witness ==
    /\ Len(index) = 4
    /\ CountOf(index, 1) > 0 /\ CountOf(index, 2) > 0
    /\ req[1].pc = "done" /\ req[2].pc = "done"

\* C10 (as claimed): once the first creation of the store has failed, the
\* failure is cached and creation is never attempted again.
C10_FailureAlwaysCached ==
    ((~apiKey /\ attempts >= 1) \/ vectorStorePromise = "rejected")
        => attempts = 1

\* C10 (amended): a rejection of the promise fromDocuments returned is cached:
\* it stays, creation is not attempted again and every call that awaited the
\* store failed with that error. A throw of new OpenAIEmbeddings() caches
\* nothing: the variable stays null and no store is ever created.
C10_RejectionCached ==
    /\ [](vectorStorePromise = "rejected" =>
            /\ created = 1 /\ attempts = 1
            /\ \A c \in Calls :
                 (req[c].pc = "done" /\ req[c].store # 0)
                     => (req[c].status = 500 /\ req[c].error = "StoreCreationFailed"))
    /\ [](~apiKey => (vectorStorePromise = "null" /\ created = 0))
    /\ [][vectorStorePromise = "rejected" =>
            /\ vectorStorePromise' = "rejected"
            /\ attempts' = attempts
            /\ created' = created]_vars

\* The creation was rejected and two later calls failed on the cached error.
C10_Witness ==
    /\ vectorStorePromise = "rejected"
    /\ \A c \in Calls :
         req[c].pc = "done" /\ req[c].error = "StoreCreationFailed"

====
